---- MODULE Spec2Model ----
(***************************************************************************)
(* Property search assistant: criteria extraction (ClaudeService), listing *)
(* search with merge, de-duplication, cap and price sort (PatmaService),   *)
(* the POST /api/search route that chains them, the listing parameters,    *)
(* the local-insights lookup and its route, the application start-up, and  *)
(* the chat front end.                                                     *)
(***************************************************************************)
EXTENDS Integers, Sequences, FiniteSets, TLC

VARIABLES
    pc,              \* position of the request being served
    caller,          \* "none", "route" (POST /api/search) or "direct"
    query_len,       \* len(request.query) of the POST /api/search body
    claude_outcome,  \* how client.messages.create ended ("none": not called)
    response_text,   \* message.content[0].text inside extract_criteria
    extract_exc,     \* class of the exception extract_criteria raised, or "none"
    criteria,        \* PropertyCriteria in use
    max_results,     \* search_properties' max_results argument
    loc_idx,         \* index into criteria.locations of the next loop iteration
    all_properties,  \* search_properties' all_properties list
    seen_ids,        \* search_properties' seen_ids set
    requests,        \* listing requests issued so far, in order
    dup_skipped,     \* history: listings the loop skipped as already seen
    met,             \* history: first occurrence of every id met in the responses
    merged,          \* history: all_properties as it was before the sort
    result,          \* list returned by search_properties
    svc_exc,         \* class of the exception search_properties raised, or "none"
    http_status,     \* status of the route's answer (0: none yet)
    message,         \* SearchResponse.message
    total_count,     \* SearchResponse.total_count
    resp_properties, \* SearchResponse.properties
    built_params,    \* dict returned by _build_listing_params
    env,             \* the two API keys as the environment gives them
    app_state,       \* "down", "starting", "serving" or "failed"
    startup_exc,     \* class of the exception lifespan start-up raised, or "none"
    messages,        \* st.session_state.messages of the chat front end
    api_outcome,     \* how the front end's last POST /api/search ended
    fe_response,     \* dict the front end's search_properties returned last
    fe_exc,          \* class of the exception it raised instead, or "none"
    li_pc,           \* position of the local-insights request
    li_location,     \* location path parameter of the local-insights request
    insights,        \* get_local_insights' insights dict
    li_requests,     \* local-data sub-requests issued so far, in order
    li_exc,          \* class of the exception get_local_insights raised, or "none"
    li_status,       \* status of the local-insights route's answer (0: none yet)
    li_detail        \* detail of the local-insights route's HTTPException

extractVars == <<claude_outcome, response_text, extract_exc>>
loopVars == <<loc_idx, all_properties, seen_ids, requests, dup_skipped, met>>
responseVars == <<http_status, message, total_count, resp_properties>>

startupVars == <<env, app_state, startup_exc>>
frontendVars == <<messages, api_outcome, fe_response, fe_exc>>
insightVars == <<li_pc, li_location, insights, li_requests, li_exc, li_status, li_detail>>
otherVars == <<built_params, startupVars, frontendVars, insightVars>>

searchVars == <<pc, caller, query_len, criteria, max_results, merged, result,
                svc_exc, extractVars, loopVars, responseVars>>

vars == <<searchVars, otherVars>>

---------------------------------------------------------------------------
(* Bounds of the model *)

MaxLocations == 2     \* longest criteria.locations
MaxListings == 2      \* longest small listing response
MaxCap == 2           \* a direct caller's max_results ranges over 0..MaxCap
MaxTextLen == 3       \* longest free-form model response, in tokens
MaxQueries == 2       \* queries submitted to the chat before it is cleared
BulkLen == 30         \* length unit of the large listing responses

(* Program constants *)

MinQueryLength == 10
MaxQueryLength == 2000
PageSizeLimit == 100
RouteMaxResultsWide == PageSizeLimit
RouteMaxResults == 50
SearchRadius == 5
ReducedPercent == 5
ShownLimit == 5

---------------------------------------------------------------------------
(* Generic helpers *)

SeqsUpTo(S, n) == UNION {[1..k -> S] : k \in 0..n}

Min(a, b) == IF a <= b THEN a ELSE b

\* Python's seq[:n]
PrefixNoCut(s, n) == s
Prefix(s, n) ==
    IF n >= 0
    THEN SubSeq(s, 1, Min(n, Len(s)))
    ELSE SubSeq(s, 1, IF Len(s) + n > 0 THEN Len(s) + n ELSE 0)

NoneVal == -1         \* Python's None in an Optional[int] field (values are >= 0)

---------------------------------------------------------------------------
(* Exception classes and Python's isinstance over them *)

ExcParent(cls) ==
    CASE cls = "JSONDecodeError" -> "ValueError"
      [] cls = "ValidationError" -> "ValueError"
      [] cls = "APITimeoutError" -> "APIConnectionError"
      [] cls = "APIConnectionError" -> "APIError"
      [] cls = "APIStatusError" -> "APIError"
      [] cls = "ConnectError" -> "RequestError"
      [] OTHER -> "Exception"

RECURSIVE IsA(_, _)
IsA(cls, base) ==
    IF cls = "none" THEN FALSE
    ELSE IF cls = base THEN TRUE
    ELSE IF cls = "Exception" THEN FALSE
    ELSE IsA(ExcParent(cls), base)

---------------------------------------------------------------------------
(* JSON values, as far as PropertyCriteria validation tells them apart.    *)
(* k: "absent" (key missing), "null", "int", "str", "list" (of strings).   *)

JV(k, n, s) == [k |-> k, n |-> n, s |-> s]
JAbsent == JV("absent", 0, <<>>)
JNull == JV("null", 0, <<>>)
JInt(n) == JV("int", n, <<>>)
JStr(str) == JV("str", 0, <<str>>)
JList(seq) == JV("list", 0, seq)

\* The strings of the model that spell an integer, and the integer they spell.
IsIntLiteral(str) == str \in {"2", "-1"}
IntLiteral(str) == IF str = "2" THEN 2 ELSE -1

\* criteria.locations: the first n of the postcodes M1, LS1, M1, LS1, ...
LocationAt(k) == IF k % 2 = 1 THEN "M1" ELSE "LS1"
LocationLists == {[k \in 1..n |-> LocationAt(k)] : n \in 0..MaxLocations}

\* A JSON document: shape "object" with the PropertyCriteria keys (any other
\* key is ignored by the model class), or a non-object ("array", "scalar").
Doc(shape, mb, xb, mp, xp, locs, types, prefs, breakers) ==
    [shape |-> shape,
     min_bedrooms |-> mb, max_bedrooms |-> xb, min_price |-> mp, max_price |-> xp,
     locations |-> locs, property_types |-> types,
     preferences |-> prefs, deal_breakers |-> breakers]

ObjDoc(mb, xp, locs) ==
    Doc("object", mb, JAbsent, JAbsent, xp, locs, JAbsent, JAbsent, JAbsent)

NonObjectDoc(shape) ==
    Doc(shape, JAbsent, JAbsent, JAbsent, JAbsent, JAbsent, JAbsent, JAbsent, JAbsent)

BedroomValues ==
    {JAbsent, JNull, JInt(-1), JInt(0), JInt(2), JStr("2"), JStr("-1"), JStr("x"),
     JList(<<>>)}
PriceValues == {JAbsent, JInt(-1), JInt(1)}
LocationValues == {JAbsent, JNull, JStr("M1")} \cup {JList(l) : l \in LocationLists}

\* The documents of the model: one key varied at a time around a one-location
\* search, every location list, and the non-objects.
Docs ==
    {ObjDoc(mb, JAbsent, JList(<<"M1">>)) : mb \in BedroomValues}
    \cup {ObjDoc(JAbsent, xp, JList(<<"M1">>)) : xp \in PriceValues}
    \cup {ObjDoc(JAbsent, JAbsent, locs) : locs \in LocationValues}
    \cup {NonObjectDoc("array"), NonObjectDoc("scalar")}

---------------------------------------------------------------------------
(* Response text: a sequence of tokens. "fence" is ```, "lang" a language   *)
(* tag such as json, "nl" a newline, "sp" a blank, "word" any other text    *)
(* that is not JSON, "doc" the text of one JSON document.                   *)

Tok(t) == [t |-> t, doc |-> NonObjectDoc("scalar")]
DocTok(d) == [t |-> "doc", doc |-> d]
FENCE == Tok("fence")
LANG == Tok("lang")
NL == Tok("nl")
SP == Tok("sp")
WORD == Tok("word")

IsSpace(tok) == tok.t \in {"nl", "sp"}

\* str.strip()
RECURSIVE LStrip(_)
LStrip(s) == IF s # <<>> /\ IsSpace(Head(s)) THEN LStrip(Tail(s)) ELSE s
RECURSIVE RStrip(_)
RStrip(s) ==
    IF s # <<>> /\ IsSpace(s[Len(s)]) THEN RStrip(SubSeq(s, 1, Len(s) - 1)) ELSE s
Strip(s) == RStrip(LStrip(s))

\* str.split("\n"): always at least one line
RECURSIVE SplitLines(_)
SplitLines(s) ==
    IF \A k \in DOMAIN s : s[k] # NL THEN <<s>>
    ELSE LET k == CHOOSE j \in DOMAIN s :
                      s[j] = NL /\ \A h \in 1..(j - 1) : s[h] # NL
         IN  <<SubSeq(s, 1, k - 1)>> \o SplitLines(SubSeq(s, k + 1, Len(s)))

\* "\n".join(lines)
RECURSIVE JoinLines(_)
JoinLines(lines) ==
    IF lines = <<>> THEN <<>>
    ELSE IF Len(lines) = 1 THEN lines[1]
    ELSE lines[1] \o <<NL>> \o JoinLines(Tail(lines))

\* lines[1:-1]
InnerLinesKeepLast(lines) == SubSeq(lines, 2, Len(lines))
InnerLines(lines) == SubSeq(lines, 2, Len(lines) - 1)

\* cleaned_response of extract_criteria
StartsWithFence(s) == s # <<>> /\ s[1] = FENCE
CleanResponse(text) ==
    LET stripped == Strip(text)
    IN  IF StartsWithFence(stripped)
        THEN JoinLines(InnerLines(SplitLines(stripped)))
        ELSE stripped

\* json.loads: one document, blanks allowed around it
JsonLoads(s) ==
    LET body == Strip(s)
    IN  IF Len(body) = 1 /\ body[1].t = "doc"
        THEN [ok |-> TRUE, doc |-> body[1].doc]
        ELSE [ok |-> FALSE, doc |-> NonObjectDoc("scalar")]

---------------------------------------------------------------------------
(* PropertyCriteria and its validation (pydantic, lax mode)                 *)

Criteria(mb, xb, mp, xp, locs, types, prefs, breakers) ==
    [min_bedrooms |-> mb, max_bedrooms |-> xb, min_price |-> mp, max_price |-> xp,
     locations |-> locs, property_types |-> types,
     preferences |-> prefs, deal_breakers |-> breakers]

NoCriteria == Criteria(NoneVal, NoneVal, NoneVal, NoneVal, <<>>, <<>>, <<>>, <<>>)

\* Optional[int] = Field(default=None, ge=0): a missing key or null is None, an
\* integer or a string spelling one is that integer, which must be >= 0.
GeAnything(n) == TRUE
FieldBound(n) == n >= 0

ValidateOptInt(v) ==
    CASE v.k \in {"absent", "null"} -> [ok |-> TRUE, val |-> NoneVal]
      [] v.k = "int" -> [ok |-> FieldBound(v.n), val |-> v.n]
      [] v.k = "str" /\ IsIntLiteral(v.s[1]) ->
             [ok |-> FieldBound(IntLiteral(v.s[1])), val |-> IntLiteral(v.s[1])]
      [] OTHER -> [ok |-> FALSE, val |-> NoneVal]

\* List[str] = Field(default_factory=list): a missing key is [], a list of
\* strings is itself, anything else (null included) is rejected.
ValidateStrList(v) ==
    CASE v.k = "absent" -> [ok |-> TRUE, val |-> <<>>]
      [] v.k = "list" -> [ok |-> TRUE, val |-> v.s]
      [] OTHER -> [ok |-> FALSE, val |-> <<>>]

\* PropertyCriteria.model_validate
ModelValidate(doc) ==
    LET mb == ValidateOptInt(doc.min_bedrooms)
        xb == ValidateOptInt(doc.max_bedrooms)
        mp == ValidateOptInt(doc.min_price)
        xp == ValidateOptInt(doc.max_price)
        locs == ValidateStrList(doc.locations)
        types == ValidateStrList(doc.property_types)
        prefs == ValidateStrList(doc.preferences)
        breakers == ValidateStrList(doc.deal_breakers)
    IN  IF /\ doc.shape = "object"
           /\ mb.ok /\ xb.ok /\ mp.ok /\ xp.ok
           /\ locs.ok /\ types.ok /\ prefs.ok /\ breakers.ok
        THEN [ok |-> TRUE,
              val |-> Criteria(mb.val, xb.val, mp.val, xp.val,
                               locs.val, types.val, prefs.val, breakers.val)]
        ELSE [ok |-> FALSE, val |-> NoCriteria]

---------------------------------------------------------------------------
(* ClaudeService.extract_criteria                                          *)

\* What client.messages.create gives back: a message with a text block, a
\* message whose content list is empty, or one of the SDK's errors.
ClaudeOutcomeKinds ==
    {"text", "empty_content", "APIStatusError", "APIConnectionError",
     "APITimeoutError"}

\* The try block over the response text: the criteria, or the exception that
\* leaves extract_criteria (json.JSONDecodeError is re-raised as ValueError,
\* pydantic's ValidationError is not caught there).
ParseResponse(text) ==
    LET loaded == JsonLoads(CleanResponse(text))
        valid == ModelValidate(loaded.doc)
    IN  IF ~loaded.ok THEN [exc |-> "ValueError", criteria |-> NoCriteria]
        ELSE IF ~valid.ok THEN [exc |-> "ValidationError", criteria |-> NoCriteria]
        ELSE [exc |-> "none", criteria |-> valid.val]

ExtractOutcome(kind, text) ==
    CASE kind = "text" -> ParseResponse(text)
      [] kind = "empty_content" -> [exc |-> "IndexError", criteria |-> NoCriteria]
      [] OTHER -> [exc |-> kind, criteria |-> NoCriteria]

---------------------------------------------------------------------------
(* PatmaService: listings                                                  *)

\* A listing as far as search_properties reads it. A raw item whose price is
\* negative fails Property's validation (price: ge=0) in _parse_listings.
Listing(id, price) == [id |-> id, price |-> price]

ListingIds == {1, 2}
Prices == {0, 1}
RawItems == {Listing(id, price) : id \in ListingIds, price \in Prices}
            \cup {Listing(1, -1)}

\* _parse_listings: items that fail to parse are skipped.
ParseListings(items) == SelectSeq(items, LAMBDA it : it.price >= 0)

\* A large response body: n items with ids base+1 .. base+n, prices not in order.
\* Two of them overlap in five ids and hold more than 50 listings together.
Bulk(base, n) == [k \in 1..n |-> Listing(base + k, (base + n - k) % 2)]

ResponseBodies ==
    SeqsUpTo(RawItems, MaxListings)
    \cup {Bulk(0, BulkLen), Bulk(BulkLen - 5, BulkLen)}

\* How one listing request ends: "ok" (a JSON object with "results"), or the
\* exception _fetch_listings raises: raise_for_status (HTTPStatusError), the
\* request not sent (ConnectError), a body that is not JSON (JSONDecodeError),
\* a body that is a JSON array (data.get on a list: AttributeError).
FetchFailures == {"HTTPStatusError", "ConnectError", "JSONDecodeError", "AttributeError"}

\* A dict is a function from its keys; d[key] = val, done when cond holds
EmptyDict == [k \in {} |-> 0]
Put(d, key, val) == (key :> val) @@ d
PutIf(cond, d, key, val) == IF cond THEN Put(d, key, val) ELSE d
DictGet(d, key, default) == IF key \in DOMAIN d THEN d[key] ELSE default

\* str.lower() on the strings of the model
Lower(str) ==
    CASE str = "Flat" -> "flat"
      [] str = "APARTMENT" -> "apartment"
      [] str = "Semi-Detached" -> "semi-detached"
      [] str = "Cottage" -> "cottage"
      [] str = "No Chain" -> "no chain"
      [] str = "Renovation project" -> "renovation project"
      [] OTHER -> str

\* word in p, for the lower-cased preferences of the model
Contains(p, word) ==
    <<p, word>> \in {<<"no chain", "no chain">>,
                     <<"needs refurbishment", "refurb">>,
                     <<"renovation project", "renovation">>,
                     <<"reduced price", "reduced">>,
                     <<"big discount", "discount">>}

PROPERTY_TYPE_MAP ==
    [k \in {"house", "detached", "semi-detached", "semi detached", "terraced",
            "terrace", "flat", "apartment", "bungalow", "maisonette"} |->
        CASE k \in {"semi-detached", "semi detached"} -> "semi_detached"
          [] k \in {"terraced", "terrace"} -> "terraced"
          [] k \in {"flat", "apartment", "maisonette"} -> "flat"
          [] OTHER -> k]

\* "page_size": min(max_results, 100)
PageSizeUncapped(cap) == cap
PageSize(cap) == Min(cap, PageSizeLimit)

\* if criteria.<bound> is not None
IsTruthy(v) == v # NoneVal /\ v # 0
IsNotNone(v) == v # NoneVal

\* the entry of criteria.property_types the type filter looks at
LastEntry(types) == types[Len(types)]
FirstEntry(types) == types[1]

\* _build_listing_params
BuildListingParams(c, location, cap) ==
    LET base == [postcode |-> location, radius |-> SearchRadius,
                 page_size |-> PageSize(cap)]
        p1 == PutIf(IsNotNone(c.min_bedrooms), base, "bedrooms_gte", c.min_bedrooms)
        p2 == PutIf(IsNotNone(c.max_bedrooms), p1, "bedrooms_lte", c.max_bedrooms)
        p3 == PutIf(IsNotNone(c.min_price), p2, "price_gte", c.min_price)
        p4 == PutIf(IsNotNone(c.max_price), p3, "price_lte", c.max_price)
        p5 == IF c.property_types # <<>>
              THEN LET prop_type == Lower(FirstEntry(c.property_types))
                       mapped_type == DictGet(PROPERTY_TYPE_MAP, prop_type, "")
                   IN  PutIf(mapped_type # "", p4, "property_type", mapped_type)
              ELSE p4
        prefs_lower == [i \in DOMAIN c.preferences |-> Lower(c.preferences[i])]
        AnyPref(words) ==
            \E i \in DOMAIN prefs_lower : \E w \in words : Contains(prefs_lower[i], w)
        p6 == PutIf(AnyPref({"no chain"}), p5, "no_chain", TRUE)
        p7 == PutIf(AnyPref({"refurb", "renovation"}), p6, "needs_refurb", TRUE)
    IN  PutIf(AnyPref({"reduced", "discount"}), p7, "reduced_percent_gte",
              ReducedPercent)

\* prop.id not in seen_ids
IsNewAlways(id, seen) == TRUE
IsNew(id, seen) == id \notin seen

\* if len(all_properties) >= max_results: break
ReachedCapNever(n, cap) == FALSE
ReachedCap(n, cap) == n >= cap

\* The listings of the responses read so far, one per id, each id by the
\* first listing that carried it, in the order the ids were first met
RECURSIVE FirstOccurrences(_, _)
FirstOccurrences(firsts, props) ==
    IF props = <<>> THEN firsts
    ELSE IF \E i \in DOMAIN firsts : firsts[i].id = Head(props).id
         THEN FirstOccurrences(firsts, Tail(props))
         ELSE FirstOccurrences(Append(firsts, Head(props)), Tail(props))

\* The inner loop of search_properties over one response: append the listings
\* not seen before, stop when the list holds max_results of them.
RECURSIVE MergeListings(_, _, _, _, _)
MergeListings(all, seen, skipped, props, cap) ==
    IF props = <<>> THEN [all |-> all, seen |-> seen, skipped |-> skipped]
    ELSE LET p == Head(props)
         IN  IF IsNew(p.id, seen)
             THEN IF ReachedCap(Len(all) + 1, cap)
                  THEN [all |-> Append(all, p), seen |-> seen \cup {p.id},
                        skipped |-> skipped]
                  ELSE MergeListings(Append(all, p), seen \cup {p.id}, skipped,
                                     Tail(props), cap)
             ELSE MergeListings(all, seen, skipped + 1, Tail(props), cap)

\* list.sort(key=lambda p: p.price): stable, ascending
RECURSIVE InsertByPrice(_, _)
InsertByPrice(sorted, p) ==
    IF sorted = <<>> THEN <<p>>
    ELSE IF Head(sorted).price <= p.price
         THEN <<Head(sorted)>> \o InsertByPrice(Tail(sorted), p)
         ELSE <<p>> \o sorted

RECURSIVE SortFrom(_, _)
SortFrom(sorted, rest) ==
    IF rest = <<>> THEN sorted
    ELSE SortFrom(InsertByPrice(sorted, Head(rest)), Tail(rest))

SortSkipped(s) == s
SortByPrice(s) == SortFrom(<<>>, s)

---------------------------------------------------------------------------
(* Inputs                                                                  *)

\* Model responses: a document with text around it, and every short token text.
Prefixes ==
    {<<>>, <<SP>>, <<FENCE, NL>>, <<FENCE, LANG, NL>>, <<NL, FENCE, LANG, NL>>,
     <<WORD, SP>>, <<FENCE>>}
Suffixes ==
    {<<>>, <<NL>>, <<NL, FENCE>>, <<NL, FENCE, SP>>, <<FENCE>>, <<NL, WORD>>}

FreeTokens ==
    {FENCE, LANG, NL, SP, WORD,
     DocTok(ObjDoc(JAbsent, JAbsent, JList(<<"M1">>))), DocTok(NonObjectDoc("array"))}

Texts ==
    {pre \o <<DocTok(d)>> \o post : pre \in Prefixes, d \in Docs, post \in Suffixes}
    \cup SeqsUpTo(FreeTokens, MaxTextLen)

\* Criteria a caller other than the route hands to search_properties.
DirectCriteria ==
    {Criteria(NoneVal, NoneVal, NoneVal, NoneVal, locs, <<>>, <<>>, <<>>) :
         locs \in LocationLists}

---------------------------------------------------------------------------
(* State machine                                                           *)

SearchIdle ==
    /\ caller = "none"
    /\ query_len = 0
    /\ claude_outcome = "none"
    /\ response_text = <<>>
    /\ extract_exc = "none"
    /\ loc_idx = 0
    /\ all_properties = <<>>
    /\ seen_ids = {}
    /\ requests = <<>>
    /\ dup_skipped = 0
    /\ met = <<>>
    /\ merged = <<>>
    /\ result = <<>>
    /\ svc_exc = "none"
    /\ http_status = 0
    /\ message = [text |-> "none", n |-> 0]
    /\ total_count = 0
    /\ resp_properties = <<>>

\* The parts of the program a specification leaves at rest
ParamsIdle == built_params = EmptyDict

StartupIdle ==
    /\ env = [anthropic_api_key |-> "unset", patma_api_key |-> "unset"]
    /\ app_state = "down"
    /\ startup_exc = "none"

FrontendIdle ==
    /\ messages = <<>>
    /\ api_outcome = [exc |-> "none", body |-> "none", n |-> 0, located |-> FALSE]
    /\ fe_response = EmptyDict
    /\ fe_exc = "none"

InsightsIdle ==
    /\ li_pc = "idle"
    /\ li_location = ""
    /\ insights = EmptyDict
    /\ li_requests = <<>>
    /\ li_exc = "none"
    /\ li_status = 0
    /\ li_detail = [text |-> "", arg |-> ""]

OthersIdle == ParamsIdle /\ StartupIdle /\ FrontendIdle /\ InsightsIdle

Init ==
    /\ pc = "idle"
    /\ criteria = NoCriteria
    /\ max_results = 0
    /\ SearchIdle
    /\ OthersIdle

\* POST /api/search: the body is validated as a SearchRequest before the
\* handler runs; a query of the wrong length is answered without calling it
QueryValidExclusive(n) == n > MinQueryLength /\ n < MaxQueryLength
QueryValid(n) == n >= MinQueryLength /\ n <= MaxQueryLength

QueryLengths ==
    {0, MinQueryLength - 1, MinQueryLength, MaxQueryLength, MaxQueryLength + 1}

ReceiveRequest ==
    /\ pc = "idle"
    /\ \E n \in QueryLengths :
          /\ query_len' = n
          /\ IF QueryValid(n)
             THEN pc' = "accepted" /\ http_status' = http_status
             ELSE pc' = "rejected" /\ http_status' = 422
    /\ caller' = "route"
    /\ UNCHANGED <<criteria, max_results, merged, result, svc_exc, extractVars,
                   loopVars, message, total_count, resp_properties, otherVars>>

\* POST /api/search, step 1: await services.claude.extract_criteria(query)
ExtractCriteria ==
    /\ pc = "accepted"
    /\ \E kind \in ClaudeOutcomeKinds, text \in Texts :
          LET o == ExtractOutcome(kind, text)
          IN  /\ kind # "text" => text = <<>>
              /\ claude_outcome' = kind
              /\ response_text' = text
              /\ extract_exc' = o.exc
              /\ criteria' = o.criteria
    /\ pc' = "extracted"
    /\ UNCHANGED <<otherVars, caller, query_len, max_results, merged, result, svc_exc, loopVars, responseVars>>

\* POST /api/search, step 2: search_properties(criteria=criteria, max_results=50)
RouteSearch ==
    /\ pc = "extracted"
    /\ extract_exc = "none"
    /\ pc' = "call"
    /\ max_results' = RouteMaxResults
    /\ response_text' = <<>>
    /\ UNCHANGED <<query_len, otherVars, caller, claude_outcome, extract_exc, criteria, merged, result,
                   svc_exc, loopVars, responseVars>>

\* max_results of a direct caller: small ones, and one above the page size limit
DirectCaps == (0..MaxCap) \cup {PageSizeLimit + 1}

\* search_properties called by anyone else, with a max_results of its own
DirectSearch ==
    /\ pc = "idle"
    /\ \E c \in DirectCriteria, cap \in DirectCaps :
          /\ criteria' = c
          /\ max_results' = cap
    /\ pc' = "call"
    /\ caller' = "direct"
    /\ UNCHANGED <<query_len, otherVars, merged, result, svc_exc, extractVars, loopVars, responseVars>>

\* The listing requests search_properties has issued when it finds no location
ProbeRequest(reqs, c, cap) ==
    Append(reqs, [params |-> BuildListingParams(c, "", cap), outcome |-> "ok"])
RequestsOnEmpty(reqs, c, cap) == reqs

\* search_properties up to the loop: no locations returns [] at once
SearchBegin ==
    /\ pc = "call"
    /\ IF criteria.locations = <<>>
       THEN /\ result' = <<>>
            /\ requests' = RequestsOnEmpty(requests, criteria, max_results)
            /\ pc' = "returned"
            /\ UNCHANGED <<loc_idx, all_properties, seen_ids>>
       ELSE /\ all_properties' = <<>>
            /\ seen_ids' = {}
            /\ loc_idx' = 1
            /\ pc' = "loop"
            /\ UNCHANGED <<result, requests>>
    /\ UNCHANGED <<query_len, otherVars, caller, criteria, max_results, merged, svc_exc, dup_skipped, met,
                   extractVars, responseVars>>

\* How one listing request ends: a parsed response body, or an exception.
FetchOutcomes ==
    {[exc |-> "none", body |-> b] : b \in ResponseBodies}
    \cup {[exc |-> e, body |-> <<>>] : e \in FetchFailures}

\* The bottom of a loop iteration: the next location, or the end of the loop.
NextLocation(i, nlocs) == IF i >= nlocs THEN "sort" ELSE "loop"

\* except Exception as e: log and continue with the next location (the cap
\* test after the try block is skipped by the continue)
OnFetchErrorReraise(exc, all, seen, skipped, i, nlocs) ==
    [all |-> all, seen |-> seen, skipped |-> skipped, raised |-> exc,
     next |-> "returned"]
OnFetchError(exc, all, seen, skipped, i, nlocs) ==
    [all |-> all, seen |-> seen, skipped |-> skipped, raised |-> "none",
     next |-> NextLocation(i, nlocs)]

\* One iteration of the loop body for location number i
Iteration(o, all, seen, skipped, cap, i, nlocs) ==
    IF o.exc # "none" THEN OnFetchError(o.exc, all, seen, skipped, i, nlocs)
    ELSE LET m == MergeListings(all, seen, skipped, ParseListings(o.body), cap)
         IN  [all |-> m.all, seen |-> m.seen, skipped |-> m.skipped,
              raised |-> "none",
              next |-> IF ReachedCap(Len(m.all), cap) THEN "sort"
                       ELSE NextLocation(i, nlocs)]

\* One iteration of the loop: build the parameters, fetch, merge.
FetchLocation ==
    /\ pc = "loop"
    /\ \E o \in FetchOutcomes :
          LET location == criteria.locations[loc_idx]
              params == BuildListingParams(criteria, location, max_results)
              it == Iteration(o, all_properties, seen_ids, dup_skipped, max_results,
                              loc_idx, Len(criteria.locations))
          IN  /\ requests' = Append(requests, [params |-> params,
                                               outcome |-> IF o.exc = "none" THEN "ok"
                                                           ELSE o.exc])
              /\ all_properties' = it.all
              /\ seen_ids' = it.seen
              /\ dup_skipped' = it.skipped
              /\ met' = IF o.exc = "none"
                        THEN FirstOccurrences(met, ParseListings(o.body))
                        ELSE met
              /\ svc_exc' = it.raised
              /\ pc' = it.next
    /\ loc_idx' = loc_idx + 1
    /\ UNCHANGED <<query_len, otherVars, caller, criteria, max_results, merged, result, extractVars,
                   responseVars>>

\* all_properties.sort(key=price); return all_properties[:max_results]
SortAndReturn ==
    /\ pc = "sort"
    /\ merged' = all_properties
    /\ LET sorted == SortByPrice(all_properties)
       IN  /\ all_properties' = sorted
           /\ result' = Prefix(sorted, max_results)
    /\ pc' = "returned"
    /\ UNCHANGED <<query_len, otherVars, caller, criteria, max_results, svc_exc, loc_idx, seen_ids,
                   requests, dup_skipped, met, extractVars, responseVars>>

\* The except clauses of the route, in order; the first that matches decides.
RouteStatusAllInternal(exc) == 500
RouteStatus(exc) ==
    IF IsA(exc, "ValueError") THEN 422
    ELSE IF IsA(exc, "APIStatusError") THEN 502
    ELSE IF IsA(exc, "APIConnectionError") THEN 503
    ELSE IF IsA(exc, "HTTPStatusError") THEN 502
    ELSE IF IsA(exc, "RequestError") THEN 503
    ELSE 500

\* The exception the route's try block ends with, if any
RouteExc == IF extract_exc # "none" THEN extract_exc ELSE svc_exc

\* POST /api/search: one of the except clauses answers with an HTTPException
RouteExcept ==
    /\ caller = "route"
    /\ pc \in {"extracted", "returned"}
    /\ RouteExc # "none"
    /\ http_status' = RouteStatus(RouteExc)
    /\ pc' = "failed"
    /\ UNCHANGED <<query_len, otherVars, caller, criteria, max_results, merged, result, svc_exc,
                   extractVars, loopVars, message, total_count, resp_properties>>

\* Step 3 of the route: the message
MsgFound == "Found N properties matching your criteria."
MsgLocation == "Please specify a location to search for properties."
MsgNone == "No properties found matching your exact criteria. Try broadening your search or adjusting your requirements."

BuildMessageSwapped(properties, c) ==
    IF properties # <<>> THEN [text |-> MsgFound, n |-> Len(properties)]
    ELSE IF c.locations = <<>> THEN [text |-> MsgNone, n |-> 0]
    ELSE [text |-> MsgLocation, n |-> 0]
BuildMessage(properties, c) ==
    IF properties # <<>> THEN [text |-> MsgFound, n |-> Len(properties)]
    ELSE IF c.locations = <<>> THEN [text |-> MsgLocation, n |-> 0]
    ELSE [text |-> MsgNone, n |-> 0]

\* POST /api/search: the SearchResponse
RouteRespond ==
    /\ caller = "route"
    /\ pc = "returned"
    /\ RouteExc = "none"
    /\ message' = BuildMessage(result, criteria)
    /\ resp_properties' = result
    /\ total_count' = Len(result)
    /\ http_status' = 200
    /\ pc' = "responded"
    /\ UNCHANGED <<query_len, otherVars, caller, criteria, max_results, merged, result, svc_exc,
                   extractVars, loopVars>>

Next ==
    \/ ReceiveRequest
    \/ ExtractCriteria
    \/ RouteSearch
    \/ DirectSearch
    \/ SearchBegin
    \/ FetchLocation
    \/ SortAndReturn
    \/ RouteExcept
    \/ RouteRespond

Spec == Init /\ [][Next]_vars

---------------------------------------------------------------------------
(* _build_listing_params on its own, over criteria of every kind           *)

ParamBounds == {NoneVal, 0, 1}
TypeLists ==
    {<<>>, <<"flat">>, <<"Flat">>, <<"APARTMENT", "house">>, <<"Cottage", "flat">>,
     <<"Semi-Detached">>, <<"maisonette", "Cottage">>, <<"house", "flat">>,
     <<"semi detached">>, <<"terrace", "bungalow">>}
PrefLists ==
    {<<>>, <<"garden">>, <<"No Chain", "garden">>, <<"needs refurbishment">>,
     <<"Renovation project">>, <<"reduced price", "big discount">>}
ParamCriteria ==
    {Criteria(mb, xb, mp, xp, <<"M1">>, types, prefs, <<>>) :
        mb \in ParamBounds, xb \in ParamBounds, mp \in ParamBounds,
        xp \in ParamBounds, types \in TypeLists, prefs \in PrefLists}
ParamCaps == {0, 1, PageSizeLimit - 1, PageSizeLimit, PageSizeLimit + 1}

InitParams ==
    /\ pc = "params"
    /\ criteria \in ParamCriteria
    /\ max_results \in ParamCaps
    /\ SearchIdle
    /\ OthersIdle

BuildParams ==
    /\ pc = "params"
    /\ \E location \in {"M1", "LS1"} :
          built_params' = BuildListingParams(criteria, location, max_results)
    /\ pc' = "built"
    /\ UNCHANGED <<caller, query_len, criteria, max_results, merged, result, svc_exc,
                   extractVars, loopVars, responseVars, startupVars, frontendVars,
                   insightVars>>

NextParams == BuildParams

SpecParams == InitParams /\ [][NextParams]_vars

---------------------------------------------------------------------------
(* The chat front end: search_properties, format_response, process_query   *)
(* and the 'Clear chat' button, on st.session_state.messages.              *)

Prompts == {"3 bed house in Leeds", "flat in M1 under 200k"}

\* A value under 'error': a string, or the list FastAPI puts under 'detail'
\* when it rejects the request body
StrVal(text) == [kind |-> "str", text |-> text]
ListVal(text) == [kind |-> "list", text |-> text]

\* f"{value}": a string as it is, a list as its repr
PyStr(v) == IF v.kind = "str" THEN v.text ELSE "[{'type': 'string_too_short'}]"

\* str(e)
StrOf(exc) ==
    CASE exc = "HTTPStatusError" -> "Client error '422 Unprocessable Entity' for url"
      [] exc = "ReadTimeout" -> "The read operation timed out"
      [] exc = "JSONDecodeError" -> "Expecting value: line 1 column 1 (char 0)"
      [] OTHER -> exc

\* The body of an answer with an HTTP error status: JSON with a string or a
\* list under 'detail', a JSON object without 'detail', a JSON array, not JSON
HttpErrorBodies == {"detail_str", "detail_list", "no_detail", "json_array", "not_json"}

\* How the POST ends inside the try block: a SearchResponse with n properties
\* (none without a location), a 200 whose body is not JSON, or an exception
ApiOutcome(exc, body, n, located) ==
    [exc |-> exc, body |-> body, n |-> n, located |-> located]
NoOutcome == ApiOutcome("none", "none", 0, FALSE)
PropertyCounts == {0, 1, ShownLimit, ShownLimit + 1}
ApiOutcomes ==
    {ApiOutcome("none", "search_response", n, TRUE) : n \in PropertyCounts}
    \cup {ApiOutcome("none", "search_response", 0, FALSE)}
    \cup {ApiOutcome(e, "none", 0, FALSE) :
             e \in {"JSONDecodeError", "ConnectError", "ReadTimeout"}}
    \cup {ApiOutcome("HTTPStatusError", b, 0, FALSE) : b \in HttpErrorBodies}

\* The properties of a SearchResponse, by their addresses
Addresses ==
    <<"1 Elm Road", "7 Oak Street", "3 Ash Lane", "9 Fir Court", "2 Bay View",
      "5 Yew Close">>
PropertyList(n) == [i \in 1..n |-> [address |-> Addresses[i]]]

\* response.json() of a served search: the SearchResponse
ResponseDict(o) ==
    [message |-> IF o.n > 0 THEN MsgFound ELSE IF o.located THEN MsgNone
                 ELSE MsgLocation,
     criteria |-> [locations |-> o.located],
     properties |-> PropertyList(o.n),
     total_count |-> o.n]

ErrorDict(v) == Put(EmptyDict, "error", v)

\* (the command stands between backquotes in the source)
ConnectMessage ==
    "Cannot connect to the API server. Make sure the backend is running with: uvicorn app.main:app --reload"

\* e.response.json().get("detail", str(e)), and str(e) when that raises
ErrorDetail(o) ==
    CASE o.body = "detail_str" -> StrVal("Property data API error: 500")
      [] o.body = "detail_list" -> ListVal("string_too_short")
      [] OTHER -> StrVal(StrOf(o.exc))

\* except Exception as e: return {"error": str(e)}
OnOtherExceptionReraise(exc) == [raised |-> exc, dict |-> EmptyDict]
OnOtherException(exc) == [raised |-> "none", dict |-> ErrorDict(StrVal(StrOf(exc)))]

\* The front end's search_properties: the try block and its except clauses
FrontendSearchProperties(o) ==
    IF o.exc = "none" THEN [raised |-> "none", dict |-> ResponseDict(o)]
    ELSE IF IsA(o.exc, "ConnectError")
         THEN [raised |-> "none", dict |-> ErrorDict(StrVal(ConnectMessage))]
    ELSE IF IsA(o.exc, "HTTPStatusError")
         THEN [raised |-> "none", dict |-> ErrorDict(ErrorDetail(o))]
    ELSE OnOtherException(o.exc)

\* The text format_response builds, as the parts it joins
Part(part, text, n) == [part |-> part, text |-> text, n |-> n]

\* properties[:5]
ShownAll(properties) == properties
Shown(properties) == Prefix(properties, ShownLimit)

\* for i, prop in enumerate(properties[:5], 1): the entry, headed by
\* "{index}. {address}", and a spacing line
PropertyParts(properties) ==
    LET shown == Shown(properties)
    IN  [k \in 1..(2 * Len(shown)) |->
            IF k % 2 = 1
            THEN Part("property", shown[(k + 1) \div 2].address, (k + 1) \div 2)
            ELSE Part("", "", 0)]

FormatResponse(data) ==
    IF "error" \in DOMAIN data
    THEN <<Part("**Error:** ", PyStr(data["error"]), 0)>>
    ELSE LET properties == data["properties"]
             n == Len(properties)
             head == (IF data["message"] # "" THEN <<Part("message", data["message"], 0)>>
                      ELSE <<>>)
                     \o <<Part("Search Criteria Extracted", "", 0)>>
         IN  IF n > 0
             THEN head \o <<Part("Properties Found", "", n)>>
                  \o PropertyParts(properties)
                  \o (IF n > ShownLimit THEN <<Part("more", "", n - ShownLimit)>>
                      ELSE <<>>)
             ELSE IF data["criteria"].locations
             THEN head \o <<Part("No properties found", "", 0)>>
             ELSE head

ChatMessage(role, content) == [role |-> role, content |-> content]

\* process_query's two appends
AppendExchangeSwapped(msgs, prompt, formatted) ==
    msgs \o <<ChatMessage("assistant", formatted), ChatMessage("user", prompt)>>
AppendExchange(msgs, prompt, formatted) ==
    msgs \o <<ChatMessage("user", prompt), ChatMessage("assistant", formatted)>>

\* if prompt := st.chat_input(" "): process_query(prompt); st.rerun()
ProcessQuery ==
    /\ Len(messages) < 2 * MaxQueries
    /\ \E prompt \in Prompts, o \in ApiOutcomes :
          LET r == FrontendSearchProperties(o)
          IN  /\ api_outcome' = o
              /\ fe_response' = r.dict
              /\ fe_exc' = r.raised
              /\ messages' = IF r.raised = "none"
                             THEN AppendExchange(messages, prompt, FormatResponse(r.dict))
                             ELSE Append(messages, ChatMessage("user", prompt))
    /\ UNCHANGED <<searchVars, built_params, startupVars, insightVars>>

\* The button shown under a non-empty history: messages = []; st.rerun()
ClearChat ==
    /\ messages # <<>>
    /\ messages' = <<>>
    /\ UNCHANGED <<searchVars, built_params, startupVars, insightVars, api_outcome,
                   fe_response, fe_exc>>

NextFrontend ==
    \/ ProcessQuery
    \/ ClearChat

SpecFrontend == Init /\ [][NextFrontend]_vars

---------------------------------------------------------------------------
(* The backend besides the search: GET /api/local-insights/{location} with *)
(* PatmaService.get_local_insights, and the start-up of the application.   *)

\* A value of the insights dict: the JSON body of a sub-request, or None
JsonBody(b) == [kind |-> "json", body |-> b]
PyNone == [kind |-> "None", body |-> ""]

\* How get_schools, get_crime_data and get_demographics end: response.json(),
\* or raise_for_status (HTTPStatusError), the request not sent (ConnectError),
\* a body that is not JSON (JSONDecodeError)
LocalDataOutcomes ==
    {[exc |-> "none", data |-> JsonBody(b)] : b \in {"found", "empty"}}
    \cup {[exc |-> e, data |-> PyNone] :
             e \in {"HTTPStatusError", "ConnectError", "JSONDecodeError"}}

\* The route calls get_local_insights: insights = {"postcode": location}
InsightsRequest ==
    /\ li_pc = "idle"
    /\ \E location \in {"M1", "LS1"} :
          /\ li_location' = location
          /\ insights' = Put(EmptyDict, "postcode", location)
    /\ li_pc' = "schools"
    /\ UNCHANGED <<searchVars, built_params, startupVars, frontendVars, li_requests,
                   li_exc, li_status, li_detail>>

\* except Exception as e: log, insights[key] = None, go on to the next block
LocalDataFailedReraise(ins, key, exc, next) ==
    [insights |-> ins, raised |-> exc, next |-> "returned"]
LocalDataFailed(ins, key, exc, next) ==
    [insights |-> Put(ins, key, PyNone), raised |-> "none", next |-> next]

\* One try block of get_local_insights
LocalDataStep(ins, key, o, next) ==
    IF o.exc # "none" THEN LocalDataFailed(ins, key, o.exc, next)
    ELSE [insights |-> Put(ins, key, o.data), raised |-> "none", next |-> next]

LocalData(key, next) ==
    /\ li_pc = key
    /\ \E o \in LocalDataOutcomes :
          LET step == LocalDataStep(insights, key, o, next)
          IN  /\ li_requests' = Append(li_requests,
                                       [endpoint |-> key, postcode |-> li_location,
                                        exc |-> o.exc, data |-> o.data])
              /\ insights' = step.insights
              /\ li_exc' = step.raised
              /\ li_pc' = step.next
    /\ UNCHANGED <<searchVars, built_params, startupVars, frontendVars, li_location,
                   li_status, li_detail>>

GetSchools == LocalData("schools", "crime")
GetCrimeData == LocalData("crime", "demographics")
GetDemographics == LocalData("demographics", "returned")

\* The route's answer: 404 for a falsy insights dict, 502 for an
\* httpx.HTTPStatusError out of the call, 500 for any other exception
\* (no except clause matches it), else the insights with 200.
DetailNone == [text |-> "", arg |-> ""]
DetailNotFound(location) ==
    [text |-> "No local data found for location: {location}", arg |-> location]
DetailPatmaError == [text |-> "Property data API error: {status_code}", arg |-> ""]

InsightsAnswer(ins, exc, location) ==
    IF exc = "none"
    THEN IF ins = EmptyDict
         THEN [status |-> 404, detail |-> DetailNotFound(location)]
         ELSE [status |-> 200, detail |-> DetailNone]
    ELSE IF IsA(exc, "HTTPStatusError")
         THEN [status |-> 502, detail |-> DetailPatmaError]
         ELSE [status |-> 500, detail |-> DetailNone]

InsightsRespond ==
    /\ li_pc = "returned"
    /\ LET answer == InsightsAnswer(insights, li_exc, li_location)
       IN  /\ li_status' = answer.status
           /\ li_detail' = answer.detail
    /\ li_pc' = "responded"
    /\ UNCHANGED <<searchVars, built_params, startupVars, frontendVars, li_location,
                   insights, li_requests, li_exc>>

\* Start-up of the backend: create_app reads the settings when the module is
\* imported, lifespan checks the API keys when the server starts.

\* What the environment gives for a key: nothing, an empty value, a value
KeyValues == {"unset", "", "key"}

\* Settings(): the two key fields have no default
CreateApp ==
    /\ app_state = "down"
    /\ \E a \in KeyValues, p \in KeyValues :
          /\ env' = [anthropic_api_key |-> a, patma_api_key |-> p]
          /\ IF a = "unset" \/ p = "unset"
             THEN app_state' = "failed" /\ startup_exc' = "ValidationError"
             ELSE app_state' = "starting" /\ startup_exc' = startup_exc
    /\ UNCHANGED <<searchVars, built_params, frontendVars, insightVars>>

\* settings.<name>: the value of a field, AttributeError for any other name
HasAttr(settings, name) == name \in DOMAIN settings

\* The two checks of lifespan, on the attributes it names
LifespanCheck(settings) ==
    IF ~HasAttr(settings, "anthropic_api_key") THEN "AttributeError"
    ELSE IF settings["anthropic_api_key"] = "" THEN "RuntimeError"
    ELSE IF ~HasAttr(settings, "propertydata_api_key") THEN "AttributeError"
    ELSE IF settings["propertydata_api_key"] = "" THEN "RuntimeError"
    ELSE "none"

Lifespan ==
    /\ app_state = "starting"
    /\ LET raised == LifespanCheck(env)
       IN  /\ startup_exc' = raised
           /\ app_state' = IF raised = "none" THEN "serving" ELSE "failed"
    /\ UNCHANGED <<searchVars, built_params, env, frontendVars, insightVars>>

NextBackend ==
    \/ CreateApp
    \/ Lifespan
    \/ InsightsRequest
    \/ GetSchools
    \/ GetCrimeData
    \/ GetDemographics
    \/ InsightsRespond

SpecBackend == Init /\ [][NextBackend]_vars

---------------------------------------------------------------------------
(* Claims                                                                  *)

SearchReturned == pc \in {"returned", "responded"} /\ svc_exc = "none"

\* C1: the list search_properties returns holds no two entries with the same id.
C1_NoDuplicateIds ==
    SearchReturned =>
        \A i, j \in DOMAIN result : i # j => result[i].id # result[j].id

\* A search that skipped an already seen listing and returned several entries.
C1_Witness ==
    /\ pc = "returned"
    /\ dup_skipped > 0
    /\ Len(result) >= 2

\* C2: the returned list is in non-decreasing price order: each entry's price
\* is at most the next entry's.
C2_SortedByPrice ==
    SearchReturned =>
        \A k \in 1..(Len(result) - 1) : result[k].price <= result[k + 1].price

\* A search whose merged list was out of price order before the sort.
C2_Witness ==
    /\ pc = "returned"
    /\ Len(result) >= 2
    /\ \E k \in 1..(Len(merged) - 1) : merged[k].price > merged[k + 1].price
    /\ result # merged

\* C3: for max_results >= 0 the returned list has at most max_results entries.
C3_AtMostMaxResults ==
    (SearchReturned /\ max_results >= 0) => Len(result) <= max_results

\* A search that filled the cap and left a location unfetched.
C3_Witness ==
    /\ pc = "returned"
    /\ max_results >= 1
    /\ Len(result) = max_results
    /\ Len(requests) < Len(criteria.locations)

\* C4: with no location in the criteria, search_properties returns the empty
\* list and has sent no listing request.
C4_NoLocationsNoRequest ==
    (SearchReturned /\ criteria.locations = <<>>) =>
        (result = <<>> /\ requests = <<>>)

\* A search over criteria without locations that has returned.
C4_Witness ==
    /\ pc = "returned"
    /\ caller = "direct"
    /\ criteria.locations = <<>>

\* C5: a listing request that fails raises nothing out of search_properties,
\* adds nothing to the merged list, and the loop goes on to the next
\* location when there is one.
C5_FailureIsolated ==
    [][(pc = "loop" /\ Len(requests') = Len(requests) + 1
        /\ requests'[Len(requests')].outcome # "ok")
       => /\ svc_exc' = "none"
          /\ all_properties' = all_properties
          /\ seen_ids' = seen_ids
          /\ pc' = IF Len(requests') < Len(criteria.locations)
                   THEN "loop" ELSE "sort"]_vars

\* A search whose first request failed and whose second one gave the results.
C5_Witness ==
    /\ pc = "returned"
    /\ svc_exc = "none"
    /\ Len(requests) = 2
    /\ requests[1].outcome # "ok"
    /\ requests[2].outcome = "ok"
    /\ result # <<>>

\* C6: when every listing request of POST /api/search ends in an HTTP error
\* status the route answers 502, and when none of them could be sent, 503.
C6_SearchFailureIsHttpError ==
    (caller = "route" /\ pc \in {"responded", "failed"} /\ requests # <<>>) =>
        /\ (\A k \in DOMAIN requests : requests[k].outcome = "HTTPStatusError")
               => http_status = 502
        /\ (\A k \in DOMAIN requests : requests[k].outcome = "ConnectError")
               => http_status = 503

\* The status the claim gives to a failure of criteria extraction, by class
ExtractionFailureStatus(exc) ==
    IF IsA(exc, "ValueError") THEN 422
    ELSE IF IsA(exc, "APIStatusError") THEN 502
    ELSE IF IsA(exc, "APIConnectionError") THEN 503
    ELSE 500

\* C7: every failure of criteria extraction in POST /api/search is answered
\* by an HTTPException: 422 for a ValueError, 502 for an APIStatusError, 503
\* for an APIConnectionError, 500 for anything else; none is left unanswered.
C7_ExtractionFailureStatus ==
    /\ (caller = "route" /\ pc = "extracted" /\ extract_exc # "none")
           => ENABLED RouteExcept
    /\ (caller = "route" /\ pc = "failed" /\ extract_exc # "none")
           => http_status = ExtractionFailureStatus(extract_exc)
    /\ (caller = "route" /\ extract_exc # "none") => pc \in {"extracted", "failed"}

\* A response that is JSON but fails validation, answered 422.
C7_Witness ==
    /\ pc = "failed"
    /\ extract_exc = "ValidationError"
    /\ http_status = 422

\* C8: the message of a successful response is the "Found N" text (N the
\* length of the list) iff the list is not empty, the "specify a location"
\* text iff the list and criteria.locations are both empty, and the "No
\* properties found" text iff the list is empty and locations is not.
C8_MessageCases ==
    pc = "responded" =>
        /\ message.text \in {MsgFound, MsgLocation, MsgNone}
        /\ (message.text = MsgFound) <=> (resp_properties # <<>>)
        /\ (message.text = MsgFound) => (message.n = Len(resp_properties))
        /\ (message.text = MsgLocation)
               <=> (resp_properties = <<>> /\ criteria.locations = <<>>)
        /\ (message.text = MsgNone)
               <=> (resp_properties = <<>> /\ criteria.locations # <<>>)

\* A successful response with locations given and nothing found.
C8_Witness ==
    /\ pc = "responded"
    /\ message.text = MsgNone
    /\ requests # <<>>

\* C9: in a successful response total_count is the number of entries of
\* properties, and it is at most 50.
C9_TotalCount ==
    pc = "responded" =>
        (total_count = Len(resp_properties) /\ total_count <= 50)

\* A successful response of exactly 50 properties out of more listings.
C9_Witness ==
    /\ pc = "responded"
    /\ total_count = 50
    /\ Len(requests) = 2
    /\ dup_skipped > 0

\* The document reads as a PropertyCriteria: an object whose bounds are each
\* missing, null or a non-negative integer (also spelled as a string), and
\* whose lists are each missing or a list of strings.
BoundConforms(v) ==
    \/ v.k \in {"absent", "null"}
    \/ v.k = "int" /\ v.n >= 0
    \/ v.k = "str" /\ IsIntLiteral(v.s[1]) /\ IntLiteral(v.s[1]) >= 0
ListConforms(v) == v.k \in {"absent", "list"}
DocConforms(doc) ==
    /\ doc.shape = "object"
    /\ BoundConforms(doc.min_bedrooms) /\ BoundConforms(doc.max_bedrooms)
    /\ BoundConforms(doc.min_price) /\ BoundConforms(doc.max_price)
    /\ ListConforms(doc.locations) /\ ListConforms(doc.property_types)
    /\ ListConforms(doc.preferences) /\ ListConforms(doc.deal_breakers)

\* The text is one conforming JSON document, blanks around it aside.
IsCriteriaJson(text) ==
    LET body == Strip(text)
    IN  Len(body) = 1 /\ body[1].t = "doc" /\ DocConforms(body[1].doc)

TextExtracted == pc = "extracted" /\ claude_outcome = "text"

\* C10 as stated: every response text that is not a conforming JSON object
\* makes extract_criteria raise ValueError and return no criteria.
C10_Original ==
    (TextExtracted /\ ~IsCriteriaJson(response_text)) =>
        IsA(extract_exc, "ValueError")

\* C10 as amended: every response text whose cleaned form (blanks stripped
\* and, when it starts with a code fence, its first and last lines dropped)
\* is not a conforming JSON object makes extract_criteria raise ValueError
\* and return no criteria.
C10_CleanedNotCriteriaRaises ==
    (TextExtracted /\ ~IsCriteriaJson(CleanResponse(response_text))) =>
        (IsA(extract_exc, "ValueError") /\ criteria = NoCriteria)

\* A fenced JSON object with a negative bedroom count, rejected.
C10_Witness ==
    /\ TextExtracted
    /\ StartsWithFence(Strip(response_text))
    /\ \E d \in Docs : /\ CleanResponse(response_text) = <<DocTok(d)>>
                       /\ d.min_bedrooms = JInt(-1)
    /\ extract_exc = "ValidationError"

\* A criteria document inside a ``` code fence: the opening fence, with or
\* without a language tag, on a line of its own, the document, the closing
\* fence on a line of its own, and blanks around the whole.
Blanks == {<<>>, <<SP>>, <<NL>>}
FenceOpenings == {<<FENCE, NL>>, <<FENCE, LANG, NL>>}
FencedForms(d) ==
    {before \o open \o <<DocTok(d)>> \o <<NL, FENCE>> \o after :
        before \in Blanks, open \in FenceOpenings, after \in Blanks}

\* C11: for every valid criteria JSON J, a model response that holds J inside
\* a ``` code fence (with or without a language tag, with blanks around it)
\* is extracted to the same PropertyCriteria as the response J alone.
C11_FenceTransparent ==
    TextExtracted =>
        \A d \in Docs :
            (DocConforms(d) /\ response_text \in FencedForms(d)) =>
                /\ ParseResponse(<<DocTok(d)>>).exc = "none"
                /\ extract_exc = "none"
                /\ criteria = ParseResponse(<<DocTok(d)>>).criteria

C11_Witness ==
    /\ TextExtracted
    /\ response_text = <<NL, FENCE, LANG, NL,
                         DocTok(ObjDoc(JInt(2), JAbsent, JList(<<"M1">>))),
                         NL, FENCE, SP>>
    /\ extract_exc = "none"
    /\ criteria.min_bedrooms = 2
    /\ criteria.locations = <<"M1">>

\* C13: a POST /api/search request is accepted exactly when its query has
\* between 10 and 2000 characters, both included; for a query of any other
\* length neither the criteria extraction nor the listing search is invoked.
C13_QueryLengthGate ==
    caller = "route" =>
        /\ (pc # "rejected") <=> (query_len >= 10 /\ query_len <= 2000)
        /\ pc = "rejected" =>
               /\ claude_outcome = "none"
               /\ requests = <<>>
               /\ result = <<>>
               /\ http_status = 422

C13_Witness ==
    /\ caller = "route"
    /\ query_len = 2000
    /\ pc = "responded"
    /\ claude_outcome = "text"
    /\ requests # <<>>

\* C16: search_properties issues at most one listing request per entry of
\* criteria.locations, in list order, each with page_size = min(max_results,
\* 100); a failed request is not retried, and no request is issued after a
\* location whose listings brought the merged list to max_results.
RequestLogInOrder ==
    /\ Len(requests) <= Len(criteria.locations)
    /\ \A k \in DOMAIN requests :
          /\ requests[k].params.postcode = criteria.locations[k]
          /\ requests[k].params.page_size =
                 IF max_results < 100 THEN max_results ELSE 100

RequestIssuedBelowCap ==
    requests' # requests =>
        /\ Len(requests') = Len(requests) + 1
        /\ SubSeq(requests', 1, Len(requests)) = requests
        /\ (requests # <<>> /\ requests[Len(requests)].outcome = "ok") =>
               Len(all_properties) < max_results

C16_OneRequestPerLocation == [](RequestLogInOrder) /\ [][RequestIssuedBelowCap]_vars

C16_Witness ==
    /\ pc = "returned"
    /\ max_results = 2
    /\ Len(criteria.locations) = 2
    /\ Len(requests) = 1
    /\ requests[1].outcome = "ok"
    /\ requests[1].params.page_size = 2
    /\ Len(merged) >= 2

\* The listing parameters hold key exactly when the criteria bound v is not
\* None, and then with the value v.
BoundForwarded(key, v) ==
    /\ (key \in DOMAIN built_params) <=> (v # NoneVal)
    /\ (key \in DOMAIN built_params) => built_params[key] = v

\* C14: bedrooms_gte, bedrooms_lte, price_gte and price_lte are in the listing
\* parameters exactly when min_bedrooms, max_bedrooms, min_price and max_price
\* are not None (a bound of 0 is forwarded), each with the criteria value.
C14_BoundsForwarded ==
    pc = "built" =>
        /\ BoundForwarded("bedrooms_gte", criteria.min_bedrooms)
        /\ BoundForwarded("bedrooms_lte", criteria.max_bedrooms)
        /\ BoundForwarded("price_gte", criteria.min_price)
        /\ BoundForwarded("price_lte", criteria.max_price)

C14_Witness ==
    /\ pc = "built"
    /\ criteria.min_bedrooms = 0
    /\ criteria.max_bedrooms = 1
    /\ criteria.min_price = 0
    /\ criteria.max_price = NoneVal
    /\ built_params["bedrooms_gte"] = 0
    /\ built_params["price_gte"] = 0
    /\ "price_lte" \notin DOMAIN built_params

\* C15: property_type comes from the first entry of criteria.property_types
\* alone, compared without regard to case against PROPERTY_TYPE_MAP
\* ('apartment' and 'maisonette' give 'flat', 'semi detached' gives
\* 'semi_detached'); it is absent when the list is empty or the first entry
\* is not in the map, whatever the later entries are.
C15_TypeFromFirstEntry ==
    pc = "built" =>
        LET types == criteria.property_types
            present == "property_type" \in DOMAIN built_params
        IN  /\ types = <<>> => ~present
            /\ types # <<>> =>
                   /\ present <=> (Lower(types[1]) \in DOMAIN PROPERTY_TYPE_MAP)
                   /\ present =>
                          built_params["property_type"] = PROPERTY_TYPE_MAP[Lower(types[1])]
                   /\ types[1] \in {"flat", "Flat", "APARTMENT", "maisonette"} =>
                          present /\ built_params["property_type"] = "flat"
                   /\ types[1] \in {"semi detached", "Semi-Detached"} =>
                          present /\ built_params["property_type"] = "semi_detached"
                   /\ types[1] = "Cottage" => ~present

C15_Witness ==
    /\ pc = "built"
    /\ criteria.property_types = <<"APARTMENT", "house">>
    /\ built_params["property_type"] = "flat"

InsightKeys == <<"schools", "crime", "demographics">>

\* C19: get_local_insights never raises and returns a dict with the keys
\* postcode, schools, crime and demographics; the three sub-requests are made
\* in that order whatever the earlier ones did, and a failing one leaves None
\* under its own key and nothing else changed.
C19_InsightsAlwaysReturned ==
    /\ li_exc = "none"
    /\ li_pc \in {"returned", "responded"} =>
          /\ DOMAIN insights = {"postcode", "schools", "crime", "demographics"}
          /\ insights["postcode"] = li_location
          /\ Len(li_requests) = 3
          /\ \A k \in 1..3 :
                /\ li_requests[k].endpoint = InsightKeys[k]
                /\ li_requests[k].postcode = li_location
                /\ insights[InsightKeys[k]] =
                       IF li_requests[k].exc = "none" THEN li_requests[k].data
                       ELSE [kind |-> "None", body |-> ""]

C19_Witness ==
    /\ li_pc = "returned"
    /\ li_requests[1].exc = "HTTPStatusError"
    /\ li_requests[2].exc = "none"
    /\ li_requests[3].exc = "ConnectError"
    /\ insights["schools"].kind = "None"
    /\ insights["crime"] = [kind |-> "json", body |-> "found"]
    /\ insights["demographics"].kind = "None"

\* C20: GET /api/local-insights/{location} answers 404 'No local data found
\* for location: <location>' when schools, crime and demographics are all
\* unavailable, and 502 when Patma answers a sub-request with an HTTP error
\* status.
C20_NotFoundOrBadGateway ==
    li_pc = "responded" =>
        LET http_error == \E k \in 1..3 : li_requests[k].exc = "HTTPStatusError"
            none_found == \A k \in 1..3 : li_requests[k].exc # "none"
        IN  /\ http_error => li_status = 502
            /\ (none_found /\ ~http_error) =>
                   /\ li_status = 404
                   /\ li_detail = [text |-> "No local data found for location: {location}",
                                   arg |-> li_location]

\* C12: start-up raises RuntimeError when the Anthropic key or the Patma key
\* is empty, and with both keys set it completes and the application serves.
C12_StartupValidatesKeys ==
    (app_state \in {"serving", "failed"}
        /\ env.anthropic_api_key # "unset" /\ env.patma_api_key # "unset") =>
        IF env.anthropic_api_key = "" \/ env.patma_api_key = ""
        THEN app_state = "failed" /\ startup_exc = "RuntimeError"
        ELSE app_state = "serving" /\ startup_exc = "none"

\* The history is a run of user / assistant pairs.
RolesAlternate ==
    /\ Len(messages) % 2 = 0
    /\ \A k \in DOMAIN messages :
          messages[k].role = IF k % 2 = 1 THEN "user" ELSE "assistant"

\* The history changes by one user message followed by one assistant message,
\* or by being emptied.
ExchangeAppended ==
    messages' # messages =>
        \/ messages # <<>> /\ messages' = <<>>
        \/ /\ Len(messages') = Len(messages) + 2
           /\ SubSeq(messages', 1, Len(messages)) = messages
           /\ messages'[Len(messages) + 1].role = "user"
           /\ messages'[Len(messages) + 1].content \in Prompts
           /\ messages'[Len(messages) + 2].role = "assistant"

\* C17: after any sequence of submitted queries and 'Clear chat' presses the
\* session's message list has even length and alternates user, assistant,
\* starting with user; each processed query appends one user message and
\* then one assistant message, also when the backend call fails; 'Clear
\* chat' leaves the list empty.
C17_HistoryAlternates == [](RolesAlternate) /\ [][ExchangeAppended]_vars

C17_Witness ==
    /\ Len(messages) = 4
    /\ messages[2].content[1].part = "**Error:** "
    /\ messages[4].content[1].part = "message"
    /\ api_outcome.n = 1

\* C18: the front end's search_properties never raises: a connection
\* failure, an HTTP error status and any other exception each give a dict
\* with an 'error' key (the backend's 'detail' for an error status whose JSON
\* body holds one), and format_response renders a dict with 'error' as
\* exactly '**Error:** <error>', with no criteria or property section.
C18_ErrorsBecomeMessages ==
    /\ fe_exc = "none"
    /\ api_outcome.exc # "none" =>
          /\ DOMAIN fe_response = {"error"}
          /\ api_outcome.exc = "ConnectError" =>
                 fe_response["error"] =
                     [kind |-> "str",
                      text |-> "Cannot connect to the API server. Make sure the backend is running with: uvicorn app.main:app --reload"]
          /\ (api_outcome.exc = "HTTPStatusError" /\ api_outcome.body = "detail_str") =>
                 fe_response["error"] = [kind |-> "str", text |-> "Property data API error: 500"]
          /\ (api_outcome.exc = "HTTPStatusError" /\ api_outcome.body = "detail_list") =>
                 fe_response["error"] = [kind |-> "list", text |-> "string_too_short"]
    /\ ("error" \in DOMAIN fe_response /\ messages # <<>>) =>
          messages[Len(messages)].content =
              <<[part |-> "**Error:** ", text |-> PyStr(fe_response["error"]), n |-> 0]>>

C18_Witness ==
    /\ api_outcome.exc = "HTTPStatusError"
    /\ api_outcome.body = "detail_str"
    /\ fe_response["error"].text = "Property data API error: 500"
    /\ Len(messages) = 2
    /\ messages[2].content = <<[part |-> "**Error:** ",
                                text |-> "Property data API error: 500", n |-> 0]>>

\* The chat's last message renders a served search (no 'error' in the dict).
ServedAnswer ==
    /\ messages # <<>>
    /\ api_outcome.exc = "none"
    /\ api_outcome.body = "search_response"

\* The parts of a rendered message that are of one kind, in order
PartsOf(content, part) == SelectSeq(content, LAMBDA x : x.part = part)

\* The property entries and the closing line of the last message, for a
\* response with N properties: min(N, 5) entries, numbered from 1, in
\* response order, and the '...and N-5 more' line exactly when N > 5.
EntriesRendered ==
    LET content == messages[Len(messages)].content
        properties == fe_response["properties"]
        N == Len(properties)
        entries == PartsOf(content, "property")
        more == PartsOf(content, "more")
    IN  /\ Len(entries) = IF N < 5 THEN N ELSE 5
        /\ \A i \in DOMAIN entries :
              /\ entries[i].n = i
              /\ entries[i].text = properties[i].address
        /\ more = IF N > 5 THEN <<[part |-> "more", text |-> "", n |-> N - 5]>>
                  ELSE <<>>

\* The 'Properties Found (n)' headers of the last message
FoundHeaders == PartsOf(messages[Len(messages)].content, "Properties Found")
FoundHeader(n) == <<[part |-> "Properties Found", text |-> "", n |-> n]>>

\* C21 as stated: for a response with N properties and no error,
\* format_response renders min(N, 5) property entries numbered 1..min(N, 5)
\* in response order, states N in the 'Properties Found (N)' header, and
\* appends '...and N-5 more properties available' exactly when N > 5.
C21_Original ==
    ServedAnswer =>
        /\ EntriesRendered
        /\ FoundHeaders = FoundHeader(Len(fe_response["properties"]))

\* C21: as stated for N >= 1; for N = 0 the message has no 'Properties
\* Found' header, no property entry and no '...and more' line.
C21_ShownEntries ==
    ServedAnswer =>
        /\ EntriesRendered
        /\ FoundHeaders = IF fe_response["properties"] # <<>>
                          THEN FoundHeader(Len(fe_response["properties"]))
                          ELSE <<>>

C21_Witness ==
    /\ ServedAnswer
    /\ Len(fe_response["properties"]) = 6
    /\ Len(PartsOf(messages[Len(messages)].content, "property")) = 5
    /\ PartsOf(messages[Len(messages)].content, "property")[5].text = "2 Bay View"
    /\ PartsOf(messages[Len(messages)].content, "more")[1].n = 1
    /\ FoundHeaders[1].n = 6

\* C22: search_properties returns exactly the first min(max_results, D)
\* listings with distinct ids met when the locations are scanned in list
\* order and each response in its own order (D the number of distinct ids
\* met), each id as its first occurrence; the price sort comes after this
\* cap, so a cheaper listing met later, or never fetched, is not returned.
C22_FirstDistinctListings ==
    (SearchReturned /\ max_results >= 0) =>
        LET D == Len(met)
            k == IF max_results < D THEN max_results ELSE D
        IN  /\ Len(result) = k
            /\ {result[i] : i \in DOMAIN result} = {met[i] : i \in 1..k}

\* The cap cut the scan before a cheaper listing, which is not returned.
C22_Witness ==
    /\ pc = "returned"
    /\ svc_exc = "none"
    /\ max_results = 1
    /\ Len(met) = 2
    /\ met[2].price < met[1].price
    /\ result = <<met[1]>>
    /\ Len(requests) < Len(criteria.locations)

====
